---- MODULE Spec2Model ----
(***************************************************************************)
(* BoulderMove front end: the route-result pipeline of                     *)
(* frontend/src/App.js (coordinate based planner with a directions proxy   *)
(* and a transit planner) and of the earlier debounced /plan planner.      *)
(*                                                                         *)
(* JavaScript values are tagged records, so that `||`, `??`, `?.` and the  *)
(* truthiness tests of the source are computed as JavaScript computes      *)
(* them: [t |-> "undefined"], [t |-> "null"], [t |-> "NaN"],               *)
(* [t |-> "number", v |-> n], [t |-> "string", v |-> s],                   *)
(* [t |-> "array", v |-> <<...>>] and [t |-> "object", ...].               *)
(***************************************************************************)
EXTENDS Integers, Sequences, FiniteSets, TLC

VARIABLES
    mode,               \* App.js useState("driving")
    showAlternatives,   \* App.js useState(false)
    originCoords,       \* App.js useState(null): Null or {lat, lon}
    destinationCoords,  \* App.js useState(null)
    routes,             \* App.js useState([]): the displayed route set
    viewport,           \* the map's viewport: the initial one or the last fitBounds
    inflight,           \* fetches awaiting their response
    alerted,            \* messages shown with window.alert, oldest first
    nextId,             \* history: number of requests issued so far
    newest,             \* history: what the newest request has produced so far
    last,               \* history: the handler that ran last, with its input
    sinceIssue,         \* history: per pending fetch, what happened since its issue
    input,              \* the argument a pipeline function is applied to
    output,             \* its result (Undef until it has been applied)
    pInputs,            \* planner: origin, destination, stops, mode, showAlternatives
    pLoaded,            \* planner: isLoaded of useJsApiLoader
    pTimer,             \* planner: the pending setTimeout(fetchRoute, 500) timers
    pInflight,          \* planner: /plan fetches awaiting their response
    pRoutes,            \* planner: useState([]), the route objects by reference
    heap,               \* planner: the route objects the references point to
    pNextId,            \* planner history: number of /plan requests issued
    pLast               \* planner history: the handler that ran last

appVars == <<mode, showAlternatives, originCoords, destinationCoords, routes,
             viewport, inflight, alerted, nextId, newest, last, sinceIssue>>

fnVars == <<input, output>>

plannerVars == <<pInputs, pLoaded, pTimer, pInflight, pRoutes, heap, pNextId,
                 pLast>>

vars == <<appVars, fnVars, plannerVars>>

-----------------------------------------------------------------------------
(* JavaScript values *)

Undef == [t |-> "undefined"]
Null == [t |-> "null"]
NaN == [t |-> "NaN"]
Num(n) == [t |-> "number", v |-> n]
Str(s) == [t |-> "string", v |-> s]
Arr(s) == [t |-> "array", v |-> s]

\* ToBoolean: undefined, null, NaN, 0 and "" are falsy, everything else truthy.
Truthy(x) ==
    CASE x.t = "undefined" -> FALSE
      [] x.t = "null" -> FALSE
      [] x.t = "NaN" -> FALSE
      [] x.t = "number" -> x.v # 0
      [] x.t = "string" -> x.v # ""
      [] OTHER -> TRUE

\* a || b
Or(a, b) == IF Truthy(a) THEN a ELSE b

\* a ?? b
Coalesce(a, b) == IF a.t \in {"undefined", "null"} THEN b ELSE a

\* x / k for a value x that is a number or undefined (undefined / k is NaN).
\* The payloads carry multiples of k, so the quotient is exact.
Div(x, k) == IF x.t = "number" THEN Num(x.v \div k) ELSE NaN

\* obj?.value
OptValue(obj) == IF obj.t \in {"undefined", "null"} THEN Undef ELSE obj.value

-----------------------------------------------------------------------------
(* polyline.decode: signed zig-zag deltas summed into coordinates *)

UnZigZag(n) == IF n % 2 = 1 THEN -((n + 1) \div 2) ELSE n \div 2

RECURSIVE DecodeFrom(_, _, _)
DecodeFrom(enc, lat, lng) ==
    IF enc = <<>> THEN <<>>
    ELSE LET la == lat + UnZigZag(Head(enc)[1])
             ln == lng + UnZigZag(Head(enc)[2])
         IN <<[lat |-> la, lng |-> ln]>> \o DecodeFrom(Tail(enc), la, ln)

PolylineDecode(enc) == DecodeFrom(enc, 0, 0)

-----------------------------------------------------------------------------
(* fetchGoogleRoute: normalization of a /google_directions response *)

\* obj?.custom_alerts
OptCustomAlerts(obj) ==
    IF obj.t \in {"undefined", "null"} THEN Undef ELSE obj.custom_alerts

\* !data.routes || data.routes.length === 0
NoRoutes(data) ==
    \/ ~Truthy(data.routes)
    \/ Len(data.routes.v) = 0

\* A candidate on which the map callback raises a TypeError: route.legs[0]
\* of a missing legs, leg.duration of a missing first leg, or
\* route.overview_polyline.points of a missing polyline or missing points.
CandidateThrows(route) ==
    \/ route.legs.t # "array"
    \/ Len(route.legs.v) = 0
    \/ route.overview_polyline.t # "object"
    \/ route.overview_polyline.points.t # "string"

DirectionsThrows(data) ==
    /\ ~NoRoutes(data)
    /\ \E i \in 1..Len(data.routes.v) : CandidateThrows(data.routes.v[i])

\* Mutant of MapRoute: the end points are taken from the decoded geometry.
MapRouteFromGeometry(route, data, m) ==
    LET leg == route.legs.v[1]
        pts == PolylineDecode(route.overview_polyline.points.v)
    IN [summary |-> Or(route.summary, Str(m \o " route")),
        duration_min |-> Or(Div(OptValue(leg.duration), 60), Null),
        distance_km |-> Or(Div(OptValue(leg.distance), 1000), Null),
        polylineCoords |-> pts,
        start_location |-> IF pts = <<>> THEN [lat |-> Undef, lng |-> Undef]
                           ELSE [lat |-> Num(pts[1].lat),
                                 lng |-> Num(pts[1].lng)],
        end_location |-> IF pts = <<>> THEN [lat |-> Undef, lng |-> Undef]
                         ELSE [lat |-> Num(pts[Len(pts)].lat),
                               lng |-> Num(pts[Len(pts)].lng)],
        weather |-> Or(data.weather, Null),
        alerts |-> [custom_alerts |->
                       Or(OptCustomAlerts(data.weather), Arr(<<>>))],
        events_nearby |-> Or(data.events_nearby, Arr(<<>>)),
        stops |-> Undef,
        waypoint_locations |-> Undef,
        polyline |-> Undef,
        transit_raw |-> Undef]

\* Mutant of MapRoute: duration and distance are read from the last leg.
MapRouteLastLeg(route, data, m) ==
    LET leg == route.legs.v[Len(route.legs.v)]
        pts == PolylineDecode(route.overview_polyline.points.v)
    IN [summary |-> Or(route.summary, Str(m \o " route")),
        duration_min |-> Or(Div(OptValue(leg.duration), 60), Null),
        distance_km |-> Or(Div(OptValue(leg.distance), 1000), Null),
        polylineCoords |-> pts,
        start_location |-> [lat |-> data.origin_lat, lng |-> data.origin_lon],
        end_location |-> [lat |-> data.destination_lat,
                          lng |-> data.destination_lon],
        weather |-> Or(data.weather, Null),
        alerts |-> [custom_alerts |->
                       Or(OptCustomAlerts(data.weather), Arr(<<>>))],
        events_nearby |-> Or(data.events_nearby, Arr(<<>>)),
        stops |-> Undef,
        waypoint_locations |-> Undef,
        polyline |-> Undef,
        transit_raw |-> Undef]

\* The object built for one candidate (the body of data.routes.map).
MapRoute(route, data, m) ==
    LET leg == route.legs.v[1]
        pts == PolylineDecode(route.overview_polyline.points.v)
    IN [summary |-> Or(route.summary, Str(m \o " route")),
        duration_min |-> Or(Div(OptValue(leg.duration), 60), Null),
        distance_km |-> Or(Div(OptValue(leg.distance), 1000), Null),
        polylineCoords |-> pts,
        start_location |-> [lat |-> data.origin_lat, lng |-> data.origin_lon],
        end_location |-> [lat |-> data.destination_lat,
                          lng |-> data.destination_lon],
        weather |-> Or(data.weather, Null),
        alerts |-> [custom_alerts |->
                       Or(OptCustomAlerts(data.weather), Arr(<<>>))],
        events_nearby |-> Or(data.events_nearby, Arr(<<>>)),
        stops |-> Undef,
        waypoint_locations |-> Undef,
        polyline |-> Undef,
        transit_raw |-> Undef]

\* mappedRoutes, for a response that has routes and raises nothing.
MappedRoutes(data, m) ==
    [i \in 1..Len(data.routes.v) |-> MapRoute(data.routes.v[i], data, m)]

-----------------------------------------------------------------------------
(* fetchTransitRoute: normalization of a /plan_transit_full response *)

\* data.transit?.legs
TransitLegs(data) ==
    IF data.transit.t \in {"undefined", "null"} THEN Undef
    ELSE data.transit.legs

\* String(x) inside a template literal
ToText(x) == IF x.t = "string" THEN x.v ELSE x.t

\* Mutant of WalkPoints: the points are taken last to first.
WalkPointsReversed(list) ==
    LET pts == Or(list, Arr(<<>>)).v
    IN [i \in 1..Len(pts) |-> [lat |-> pts[Len(pts) + 1 - i].lat,
                               lng |-> pts[Len(pts) + 1 - i].lon]]

\* [...(list || []).map((p) => ({ lat: p.lat, lng: p.lon }))]
WalkPoints(list) ==
    LET pts == Or(list, Arr(<<>>)).v
    IN [i \in 1..Len(pts) |-> [lat |-> pts[i].lat, lng |-> pts[i].lon]]

\* Mutant of FlatStops: only the first leg contributes its stops.
FlatStopsFirstLegOnly(legs) ==
    IF legs = <<>> THEN <<>>
    ELSE Or(Head(legs).intermediate_stops, Arr(<<>>)).v

\* legs.flatMap((l) => l.intermediate_stops || [])
RECURSIVE FlatStops(_)
FlatStops(legs) ==
    IF legs = <<>> THEN <<>>
    ELSE Or(Head(legs).intermediate_stops, Arr(<<>>)).v \o FlatStops(Tail(legs))

\* Mutant of TransitSummary: trip_id is preferred to route_id.
TransitSummaryTripFirst(data) ==
    LET legs == TransitLegs(data)
    IN IF legs.t = "array" /\ Len(legs.v) > 0
       THEN Str("Transit via "
                \o ToText(Or(legs.v[1].trip_id, legs.v[1].route_id)))
       ELSE Str("Walking only")

\* summary of routeObj
TransitSummary(data) ==
    LET legs == TransitLegs(data)
    IN IF legs.t = "array" /\ Len(legs.v) > 0
       THEN Str("Transit via "
                \o ToText(Or(legs.v[1].route_id, legs.v[1].trip_id)))
       ELSE Str("Walking only")

\* Mutant of RouteObj: a missing weather becomes a placeholder object.
RouteObjPlaceholderWeather(data, body) ==
    LET legs == TransitLegs(data)
    IN [summary |-> TransitSummary(data),
        duration_min |-> Null,
        distance_km |-> Null,
        polylineCoords |-> WalkPoints(data.walk_to_stop)
                           \o WalkPoints(data.walk_to_destination),
        start_location |-> [lat |-> Num(body.origin.lat),
                            lng |-> Num(body.origin.lon)],
        end_location |-> [lat |-> Num(body.destination.lat),
                          lng |-> Num(body.destination.lon)],
        stops |-> IF legs.t = "array" THEN Arr(FlatStops(legs.v))
                  ELSE Arr(<<>>),
        weather |-> Or(data.weather, [t |-> "object"]),
        alerts |-> [custom_alerts |->
                       Or(OptCustomAlerts(data.weather), Arr(<<>>))],
        events_nearby |-> Or(data.events_nearby, Arr(<<>>)),
        waypoint_locations |-> Undef,
        polyline |-> Undef,
        transit_raw |-> data]

\* routeObj; body is the request body built before the fetch.
RouteObj(data, body) ==
    LET legs == TransitLegs(data)
    IN [summary |-> TransitSummary(data),
        duration_min |-> Null,
        distance_km |-> Null,
        polylineCoords |-> WalkPoints(data.walk_to_stop)
                           \o WalkPoints(data.walk_to_destination),
        start_location |-> [lat |-> Num(body.origin.lat),
                            lng |-> Num(body.origin.lon)],
        end_location |-> [lat |-> Num(body.destination.lat),
                          lng |-> Num(body.destination.lon)],
        stops |-> IF legs.t = "array" THEN Arr(FlatStops(legs.v))
                  ELSE Arr(<<>>),
        weather |-> Or(data.weather, Null),
        alerts |-> [custom_alerts |->
                       Or(OptCustomAlerts(data.weather), Arr(<<>>))],
        events_nearby |-> Or(data.events_nearby, Arr(<<>>)),
        waypoint_locations |-> Undef,
        polyline |-> Undef,
        transit_raw |-> data]

-----------------------------------------------------------------------------
(* RouteCard: the impact level of a route's weather alerts *)

\* alerts.some((a) => a.severity === sev)
RECURSIVE SomeSeverity(_, _)
SomeSeverity(alerts, sev) ==
    IF alerts = <<>> THEN FALSE
    ELSE \/ Head(alerts).severity = Str(sev)
         \/ SomeSeverity(Tail(alerts), sev)

\* Mutant of ImpactLevel: medium is tested before high.
ImpactLevelMediumFirst(route) ==
    LET alerts == Or(OptCustomAlerts(route.alerts), Arr(<<>>)).v
    IN IF SomeSeverity(alerts, "medium") THEN "medium"
       ELSE IF SomeSeverity(alerts, "high") THEN "high"
       ELSE "low"

\* route.alerts?.custom_alerts || [] reduced to impactLevel.
ImpactLevel(route) ==
    LET alerts == Or(OptCustomAlerts(route.alerts), Arr(<<>>)).v
    IN IF SomeSeverity(alerts, "high") THEN "high"
       ELSE IF SomeSeverity(alerts, "medium") THEN "medium"
       ELSE "low"

-----------------------------------------------------------------------------
(* renderEvents: grouping of the nearby events by calendar day *)

HoursPerDay == 24

\* The timestamps that parse, as local hours since 2025-12-01T00:00.
IsoHours ==
    [s \in {"2025-12-01T08:00", "2025-12-01T10:00", "2025-12-02T09:00",
            "2025-12-03T07:00"} |->
        CASE s = "2025-12-01T08:00" -> 8
          [] s = "2025-12-01T10:00" -> 10
          [] s = "2025-12-02T09:00" -> 33
          [] s = "2025-12-03T07:00" -> 55]

\* new Date(timeStr).getTime(): NaN for a string that is no date.
DateParse(str) ==
    IF str.t = "string" /\ str.v \in DOMAIN IsoHours
    THEN Num(IsoHours[str.v]) ELSE NaN

\* setHours(0, 0, 0, 0) followed by getTime().
Midnight(time) ==
    IF time.t = "number" THEN Num(time.v - (time.v % HoursPerDay)) ELSE NaN

\* Array.isArray(eventsWrapper) ? eventsWrapper : eventsWrapper?.events ?? []
RawEvents(wrapper) ==
    IF wrapper.t = "array" THEN wrapper.v
    ELSE IF wrapper.t \in {"undefined", "null"} THEN <<>>
    ELSE Coalesce(wrapper.events, Arr(<<>>)).v

\* groupsByDate.get(k).push(entry), after groupsByDate.set(k, []) for a new
\* key. The Map is the sequence of its entries in insertion order.
Push(groups, k, entry) ==
    IF \E i \in 1..Len(groups) : groups[i].key = k
    THEN [i \in 1..Len(groups) |->
             IF groups[i].key = k
             THEN [key |-> k, entries |-> Append(groups[i].entries, entry)]
             ELSE groups[i]]
    ELSE Append(groups, [key |-> k, entries |-> <<entry>>])

\* Mutant of Skipped: the loop has no `continue`.
SkippedNever(e) == FALSE

\* Whether the loop skips event e: !(e.date_time || e.start_time).
Skipped(e) == ~Truthy(Or(e.date_time, e.start_time))

\* The loop `for (const e of rawEvents)`.
RECURSIVE GroupsByDate(_, _)
GroupsByDate(events, groups) ==
    IF events = <<>> THEN groups
    ELSE LET e == Head(events)
             time == DateParse(Or(e.date_time, e.start_time))
         IN IF Skipped(e) THEN GroupsByDate(Tail(events), groups)
            ELSE GroupsByDate(Tail(events),
                              Push(groups, Midnight(time),
                                   [base |-> e, time |-> time]))

\* groupsByDate.get(today.getTime()) || []
TodayEvents(groups, today) ==
    IF \E i \in 1..Len(groups) : groups[i].key = today
    THEN (CHOOSE g \in {groups[i] : i \in 1..Len(groups)} :
              g.key = today).entries
    ELSE <<>>

\* Mutant of OtherDayGroups: today's group is not filtered out.
OtherDayGroupsUnfiltered(groups, today) == groups

\* [...groupsByDate.entries()].filter(([key]) => key !== today.getTime())
OtherDayGroups(groups, today) ==
    SelectSeq(groups, LAMBDA g : g.key # today)

\* What renderEvents shows for the wrapper at time now: the empty notice, or
\* today's entries and the groups of the other days.
RenderEvents(wrapper, now) ==
    LET groups == GroupsByDate(RawEvents(wrapper), <<>>)
        today == Midnight(now)
    IN IF RawEvents(wrapper) = <<>> THEN [t |-> "noEvents"]
       ELSE [t |-> "grouped",
             today |-> TodayEvents(groups, today),
             others |-> OtherDayGroups(groups, today)]

\* One event card: {base.name || base.title}, {time.toLocaleString()} and,
\* when base.venue_name is set, "Venue: {base.venue_name}".
EventCard(entry) ==
    [base |-> entry.base,
     title |-> Or(entry.base.name, entry.base.title),
     time |-> entry.time,
     venue |-> IF Truthy(entry.base.venue_name) THEN entry.base.venue_name
               ELSE Undef]

EventCardsOf(entries) == [i \in 1..Len(entries) |-> EventCard(entries[i])]

\* The cards renderEvents draws: those of today, and per other day those
\* drawn once the section is expanded.
RenderedEventCards(wrapper, now) ==
    LET r == RenderEvents(wrapper, now)
    IN IF r.t = "noEvents" THEN r
       ELSE [t |-> "cards",
             today |-> EventCardsOf(r.today),
             others |-> [g \in 1..Len(r.others) |->
                            [key |-> r.others[g].key,
                             cards |-> EventCardsOf(r.others[g].entries)]]]

-----------------------------------------------------------------------------
(* renderAlerts: the card of each weather alert *)

SeverityColorsLight ==
    [high |-> "#ffe5e5", medium |-> "#fff5d6", low |-> "#e5ffe5"]

SeverityColorsDark ==
    [high |-> "#7f1d1d", medium |-> "#78350f", low |-> "#065f46"]

\* Names every object literal inherits from Object.prototype.
ObjectPrototypeKeys ==
    {"constructor", "toString", "valueOf", "hasOwnProperty",
     "isPrototypeOf", "propertyIsEnumerable", "toLocaleString"}

\* table[key]: the own property, else the inherited one (a function), else
\* undefined; the key is converted to a string.
Lookup(table, key) ==
    LET k == ToText(key)
    IN IF k \in DOMAIN table THEN Str(table[k])
       ELSE IF k \in ObjectPrototypeKeys THEN [t |-> "function"]
       ELSE Undef

\* The background of the card of alert a.
AlertBackground(a, darkMode) ==
    IF darkMode THEN Or(Lookup(SeverityColorsDark, a.severity), Str("#111827"))
    ELSE Or(Lookup(SeverityColorsLight, a.severity), Str("#f5f5f5"))

\* renderAlerts(alerts, darkMode): the notice without alerts, else one card
\* per alert.
RenderAlerts(alerts, darkMode) ==
    IF ~Truthy(alerts) \/ Len(alerts.v) = 0 THEN [t |-> "noAlerts"]
    ELSE [t |-> "alertCards",
          v |-> [i \in 1..Len(alerts.v) |->
                    [title |-> alerts.v[i].title,
                     message |-> alerts.v[i].message,
                     severity |-> alerts.v[i].severity,
                     background |-> AlertBackground(alerts.v[i], darkMode)]]]

-----------------------------------------------------------------------------
(* The map: decodedRoutes, buildMarkers, the marker labels, the fit effect *)

\* `if (x)` on a field of a route: the location records the normalizers
\* build are objects, which are truthy whatever their lat and lng are.
Present(x) == IF "t" \in DOMAIN x THEN Truthy(x) ELSE TRUE

\* `if (r.polyline)`: an encoded string is a sequence of delta pairs, and the
\* empty string, which is falsy, is the empty sequence.
HasPolyline(r) == r.polyline.t = "string" /\ r.polyline.v # <<>>

\* The path drawn for route r. polylineCoords is a sequence, empty also when
\* the route has none (both take the same branch of the source).
DecodedRoute(r) ==
    IF r.polylineCoords # <<>> THEN r.polylineCoords
    ELSE IF HasPolyline(r) THEN PolylineDecode(r.polyline.v)
    ELSE <<>>

DecodedRoutes(rts) == [i \in 1..Len(rts) |-> DecodedRoute(rts[i])]

\* r.waypoint_locations.forEach((wp) => markers.push({ position: wp }))
WaypointMarkers(r) ==
    IF Truthy(r.waypoint_locations)
    THEN [i \in 1..Len(r.waypoint_locations.v) |->
             [position |-> r.waypoint_locations.v[i]]]
    ELSE <<>>

\* Mutant of BuildMarkers: the end marker is pushed before the waypoints.
BuildMarkersStopsLast(rts) ==
    IF Len(rts) = 0 THEN <<>>
    ELSE LET r == rts[1]
         IN (IF Present(r.start_location)
             THEN <<[position |-> r.start_location]>> ELSE <<>>)
            \o (IF Present(r.end_location)
                THEN <<[position |-> r.end_location]>> ELSE <<>>)
            \o WaypointMarkers(r)

\* Mutant of BuildMarkers: the last displayed route adds its markers too.
BuildMarkersLastToo(rts) ==
    IF Len(rts) = 0 THEN <<>>
    ELSE LET ends == IF Len(rts) = 1 THEN <<rts[1]>>
                     ELSE <<rts[1], rts[Len(rts)]>>
         IN [i \in 1..(2 * Len(ends)) |->
                IF i % 2 = 1
                THEN [position |-> ends[(i + 1) \div 2].start_location]
                ELSE [position |-> ends[i \div 2].end_location]]

\* buildMarkers(): the markers of the first displayed route.
BuildMarkers(rts) ==
    IF Len(rts) = 0 THEN <<>>
    ELSE LET r == rts[1]
         IN (IF Present(r.start_location)
             THEN <<[position |-> r.start_location]>> ELSE <<>>)
            \o WaypointMarkers(r)
            \o (IF Present(r.end_location)
                THEN <<[position |-> r.end_location]>> ELSE <<>>)

\* The characters of the char codes 65, 66, ...: the capital letters, then "[".
CharsFromA ==
    <<"A", "B", "C", "D", "E", "F", "G", "H", "I", "J", "K", "L", "M", "N",
      "O", "P", "Q", "R", "S", "T", "U", "V", "W", "X", "Y", "Z", "[">>

\* String.fromCharCode(65 + index)
MarkerLabel(index) == CharsFromA[index + 1]

\* buildMarkers().map((m, index) => <Marker position label />)
RenderedMarkers(rts) ==
    LET ms == BuildMarkers(rts)
    IN [i \in 1..Len(ms) |->
           [position |-> ms[i].position, label |-> MarkerLabel(i - 1)]]

\* new window.google.maps.LatLngBounds()
EmptyBounds == [t |-> "empty"]

Min(a, b) == IF a <= b THEN a ELSE b

Max(a, b) == IF a >= b THEN a ELSE b

\* bounds.extend(p): the smallest box that holds the bounds and p. The
\* paths span less than half the globe, so no box crosses the antimeridian.
Extend(b, p) ==
    IF b.t = "empty"
    THEN [t |-> "box", south |-> p.lat, west |-> p.lng,
          north |-> p.lat, east |-> p.lng]
    ELSE [t |-> "box",
          south |-> Min(b.south, p.lat), west |-> Min(b.west, p.lng),
          north |-> Max(b.north, p.lat), east |-> Max(b.east, p.lng)]

\* path.forEach((p) => bounds.extend(p))
RECURSIVE ExtendPath(_, _)
ExtendPath(b, path) ==
    IF path = <<>> THEN b
    ELSE ExtendPath(Extend(b, Head(path)), Tail(path))

\* Mutant of ExtendPaths: only the first path extends the bounds.
ExtendPathsFirstOnly(b, paths) ==
    IF paths = <<>> THEN b ELSE ExtendPath(b, Head(paths))

\* decodedRoutes.forEach((path) => path.forEach(...))
RECURSIVE ExtendPaths(_, _)
ExtendPaths(b, paths) ==
    IF paths = <<>> THEN b
    ELSE ExtendPaths(ExtendPath(b, Head(paths)), Tail(paths))

\* The viewport of <GoogleMap zoom={10} center={...}> before any fit.
InitialViewport == [t |-> "initial"]

\* The fit effect, run after a render that displays rts, with the map loaded
\* (the page renders the planner only when isLoaded) and mapRef.current set:
\* it returns only when there is no displayed route, and otherwise calls
\* fitBounds with the bounds it has extended, empty or not.
FitEffect(rts, view) ==
    IF Len(DecodedRoutes(rts)) = 0 THEN view
    ELSE [t |-> "fitBounds",
          bounds |-> ExtendPaths(EmptyBounds, DecodedRoutes(rts))]

-----------------------------------------------------------------------------
(* Bounds and the payloads the back ends answer with *)

MaxRequests == 3

Modes == {"driving", "walking", "transit"}

\* Places the origin autocomplete can return (loc.lat(), loc.lng()).
OriginPlaces == {[t |-> "object", lat |-> 40, lon |-> -105]}

\* Places the destination autocomplete can return.
DestinationPlaces == {[t |-> "object", lat |-> 39, lon |-> -104]}

Leg(dur, dist) == [duration |-> dur, distance |-> dist]

Value(n) == [t |-> "object", value |-> Num(n)]

Candidate(summary, legs, poly) ==
    [summary |-> summary, legs |-> legs, overview_polyline |-> poly]

Points(enc) == [t |-> "object", points |-> Str(enc)]

CandidateA ==
    Candidate(Str("US-36"), Arr(<<Leg(Value(1800), Value(40000))>>),
              Points(<<<<2, 4>>, <<1, 3>>>>))

CandidateB ==
    Candidate(Undef, Arr(<<Leg(Value(2400), Value(45000))>>),
              Points(<<<<6, 1>>>>))

\* A candidate without geometry.
CandidateNoGeometry ==
    Candidate(Str("CO-93"), Arr(<<Leg(Value(600), Value(9000))>>), Undef)

Directions(rts, olat, olon, dlat, dlon, weather, events) ==
    [routes |-> rts, origin_lat |-> olat, origin_lon |-> olon,
     destination_lat |-> dlat, destination_lon |-> dlon,
     weather |-> weather, events_nearby |-> events]

\* What the directions proxy answers to request req in the planner's runs.
DirectionsResponses(req) ==
    { Directions(rts, Num(req.origin.lat), Num(req.origin.lon),
                 Num(req.destination.lat), Num(req.destination.lon),
                 Undef, Undef) :
        rts \in {Undef, Arr(<<>>), Arr(<<CandidateA>>),
                 Arr(<<CandidateA, CandidateB>>),
                 Arr(<<CandidateA, CandidateNoGeometry>>)} }

TransitLeg(routeId, tripId, stops) ==
    [route_id |-> routeId, trip_id |-> tripId, intermediate_stops |-> stops]

Transit(err, transit, toStop, toDest, weather, events) ==
    [error |-> err, transit |-> transit, walk_to_stop |-> toStop,
     walk_to_destination |-> toDest, weather |-> weather,
     events_nearby |-> events]

WalkA == Arr(<<[lat |-> 40, lon |-> -105], [lat |-> 41, lon |-> -105]>>)

WalkB == Arr(<<[lat |-> 39, lon |-> -104]>>)

\* What the transit planner answers in the planner's runs.
TransitResponses ==
    { Transit(Str("No transit found"), Undef, Undef, Undef, Undef, Undef),
      Transit(Undef, Undef, WalkA, Undef, Undef, Undef),
      Transit(Undef, Undef, Undef, Undef, Undef, Undef),
      Transit(Undef,
              [t |-> "object",
               legs |-> Arr(<<TransitLeg(Str("SKIP"), Str("t1"),
                                         Arr(<<"Broadway", "Table Mesa">>))>>)],
              WalkA, WalkB, Undef, Undef) }

-----------------------------------------------------------------------------
(* App.js: state, handlers and the effect that issues the requests *)

\* The history of a fetch that is not pending.
NoIssue == [shown |-> <<>>, quiet |-> FALSE, kept |-> FALSE]

NoInput ==
    [op |-> "init", id |-> 0, data |-> Undef, before |-> 0, since |-> NoIssue]

\* The histories after fetch id has been issued to back end kind and rts is
\* displayed: the routes displayed at its issue, that no response has been
\* handled since (quiet), that no transit fetch has cleared the routes since
\* (kept).
AfterIssue(hist, id, kind, rts) ==
    [j \in DOMAIN hist \cup {id} |->
        IF j = id THEN [shown |-> rts, quiet |-> TRUE, kept |-> TRUE]
        ELSE [hist[j] EXCEPT !.kept = @ /\ kind # "transit"]]

\* The histories after the response of fetch id has been handled.
AfterResponse(hist, id) ==
    [j \in DOMAIN hist \ {id} |-> [hist[j] EXCEPT !.quiet = FALSE]]

\* The histories after fetch id has been rejected.
AfterRejection(hist, id) == [j \in DOMAIN hist \ {id} |-> hist[j]]

InitApp ==
    /\ mode = "driving"
    /\ showAlternatives = FALSE
    /\ originCoords = Null
    /\ destinationCoords = Null
    /\ routes = <<>>
    /\ viewport = InitialViewport
    /\ inflight = {}
    /\ alerted = <<>>
    /\ nextId = 0
    /\ newest = [state |-> "none", v |-> <<>>]
    /\ last = NoInput
    /\ sinceIssue = <<>>

Request(id, kind, m, o, d, alt) ==
    [id |-> id, kind |-> kind, mode |-> m, origin |-> o, destination |-> d,
     alternatives |-> alt]

\* Whether the effect calls a back end: both coordinates are set.
Issues(o, d) == o.t = "object" /\ d.t = "object"

\* Mutant of BackendFor: the directions proxy is called in every mode.
BackendForDirectionsOnly(m) == "directions"

\* The back end the effect calls for mode m.
BackendFor(m) == IF m = "transit" THEN "transit" ELSE "directions"

\* The effect on [mode, originCoords, destinationCoords, fetchGoogleRoute,
\* fetchTransitRoute], run with the state (m, o, d, alt) a handler has just
\* set. fetchTransitRoute clears the displayed routes before it fetches;
\* fetchGoogleRoute does not.
RunEffect(op, m, o, d, alt) ==
    /\ last' = [op |-> op, id |-> 0, data |-> Undef, before |-> Len(routes),
                since |-> NoIssue]
    /\ alerted' = alerted
    /\ UNCHANGED <<fnVars, plannerVars>>
    /\ IF Issues(o, d)
       THEN /\ nextId < MaxRequests
            /\ nextId' = nextId + 1
            /\ inflight' = inflight \cup
                   {Request(nextId + 1, BackendFor(m), m, o, d, alt)}
            /\ newest' = [state |-> "pending", v |-> <<>>]
            /\ IF BackendFor(m) = "transit"
               THEN routes' = <<>>
               ELSE routes' = routes
            /\ sinceIssue' = AfterIssue(sinceIssue, nextId + 1, BackendFor(m),
                                        routes')
       ELSE UNCHANGED <<nextId, inflight, newest, routes, sinceIssue>>
    /\ viewport' = FitEffect(routes', viewport)

\* <select onChange={(e) => setMode(e.target.value)}>
SetMode(m) ==
    /\ m # mode
    /\ mode' = m
    /\ UNCHANGED <<showAlternatives, originCoords, destinationCoords>>
    /\ RunEffect("setMode", m, originCoords, destinationCoords,
                 showAlternatives)

\* <input type="checkbox" onChange={(e) => setShowAlternatives(...)}>
SetShowAlternatives(b) ==
    /\ b # showAlternatives
    /\ showAlternatives' = b
    /\ UNCHANGED <<mode, originCoords, destinationCoords>>
    /\ RunEffect("setShowAlternatives", mode, originCoords,
                 destinationCoords, b)

\* handleOriginSelect with a place that has a geometry: a new coordinate
\* object, so the effect runs even when the place is the same.
HandleOriginSelect(place) ==
    /\ originCoords' = place
    /\ UNCHANGED <<mode, showAlternatives, destinationCoords>>
    /\ RunEffect("handleOriginSelect", mode, place, destinationCoords,
                 showAlternatives)

HandleDestinationSelect(place) ==
    /\ destinationCoords' = place
    /\ UNCHANGED <<mode, showAlternatives, originCoords>>
    /\ RunEffect("handleDestinationSelect", mode, originCoords, place,
                 showAlternatives)

\* Mutant of DirectionsResult: a response without routes returns before
\* setRoutes([]), so the previous routes stay displayed.
DirectionsResultKeepsOld(data, m, cur) ==
    IF NoRoutes(data) THEN cur
    ELSE IF DirectionsThrows(data) THEN cur
    ELSE MappedRoutes(data, m)

\* Mutant of DirectionsResult: a mapping that raises clears the routes.
DirectionsResultClearsOnThrow(data, m, cur) ==
    IF NoRoutes(data) THEN <<>>
    ELSE IF DirectionsThrows(data) THEN <<>>
    ELSE MappedRoutes(data, m)

\* The routes fetchGoogleRoute leaves displayed after a response: cleared
\* when the response has no routes, kept when the mapping raises (the catch
\* only logs), replaced by mappedRoutes otherwise.
DirectionsResult(data, m, cur) ==
    IF NoRoutes(data) THEN <<>>
    ELSE IF DirectionsThrows(data) THEN cur
    ELSE MappedRoutes(data, m)

\* The continuation of fetchGoogleRoute after `await res.json()`.
DirectionsResponse(req, data) ==
    /\ req \in inflight /\ req.kind = "directions"
    /\ inflight' = inflight \ {req}
    /\ routes' = DirectionsResult(data, req.mode, routes)
    /\ viewport' = FitEffect(routes', viewport)
    /\ newest' = IF req.id # nextId THEN newest
                  ELSE IF DirectionsThrows(data)
                       THEN [state |-> "failed", v |-> <<>>]
                       ELSE [state |-> "done", v |-> routes']
    /\ last' = [op |-> "directionsResponse", id |-> req.id, data |-> data,
                before |-> Len(routes), since |-> sinceIssue[req.id]]
    /\ sinceIssue' = AfterResponse(sinceIssue, req.id)
    /\ UNCHANGED <<mode, showAlternatives, originCoords, destinationCoords,
                   alerted, nextId>>
    /\ UNCHANGED <<fnVars, plannerVars>>

\* fetch or res.json() rejects: the catch logs and returns.
RequestFails(req) ==
    /\ req \in inflight
    /\ inflight' = inflight \ {req}
    /\ newest' = IF req.id = nextId
                  THEN [state |-> "failed", v |-> <<>>] ELSE newest
    /\ last' = [op |-> "requestFails", id |-> req.id, data |-> Undef,
                before |-> Len(routes), since |-> sinceIssue[req.id]]
    /\ sinceIssue' = AfterRejection(sinceIssue, req.id)
    /\ UNCHANGED <<mode, showAlternatives, originCoords, destinationCoords,
                   routes, viewport, alerted, nextId>>
    /\ UNCHANGED <<fnVars, plannerVars>>

\* The routes fetchTransitRoute leaves displayed after a response.
TransitResult(data, body, cur) ==
    IF Truthy(data.error) THEN cur ELSE <<RouteObj(data, body)>>

\* Mutant of TransitAlerts: the error is only logged.
TransitAlertsSilent(data, shown) == shown

\* The messages shown after a transit response: alert(data.error).
TransitAlerts(data, shown) ==
    IF Truthy(data.error) THEN Append(shown, data.error.v) ELSE shown

\* The continuation of fetchTransitRoute after `await res.json()`.
TransitResponse(req, data) ==
    /\ req \in inflight /\ req.kind = "transit"
    /\ inflight' = inflight \ {req}
    /\ routes' = TransitResult(data, req, routes)
    /\ viewport' = FitEffect(routes', viewport)
    /\ alerted' = TransitAlerts(data, alerted)
    /\ newest' = IF req.id # nextId THEN newest
                  ELSE IF Truthy(data.error) THEN [state |-> "done", v |-> <<>>]
                       ELSE [state |-> "done", v |-> routes']
    /\ last' = [op |-> "transitResponse", id |-> req.id, data |-> data,
                before |-> Len(routes), since |-> sinceIssue[req.id]]
    /\ sinceIssue' = AfterResponse(sinceIssue, req.id)
    /\ UNCHANGED <<mode, showAlternatives, originCoords, destinationCoords,
                   nextId>>
    /\ UNCHANGED <<fnVars, plannerVars>>

-----------------------------------------------------------------------------
(* The debounced planner (the earlier App component): inputs, the 500 ms     *)
(* timer, the /plan request and simulateEvent                               *)

MaxPlanRequests == 2

MaxSimulated == 2

InitialInputs ==
    [origin |-> "norlin library", destination |-> "Denver, CO", stops |-> "",
     mode |-> "driving", showAlternatives |-> FALSE]

\* The values the input fields, the select and the checkbox can be set to.
InputValues(f) ==
    CASE f = "origin" -> {"", "norlin library"}
      [] f = "destination" -> {"", "Denver, CO"}
      [] f = "stops" -> {"", "Golden, CO"}
      [] f = "mode" -> {"driving", "transit"}
      [] f = "showAlternatives" -> BOOLEAN

\* A route object of a /plan response.
PlanRoute(summary, events) == [summary |-> summary, events_nearby |-> events]

\* What /plan answers: no routes field, no route, one route, two routes.
PlanResponses ==
    { [routes |-> Undef],
      [routes |-> Arr(<<>>)],
      [routes |-> Arr(<<PlanRoute("US-36", Undef)>>)],
      [routes |-> Arr(<<PlanRoute("US-36", Arr(<<>>)),
                        PlanRoute("CO-93", Undef)>>)] }

\* setTimeout(fetchRoute, 500): a timer for the fetchRoute built from inputs.
Timer(inputs) == [inputs |-> inputs]

\* Mutant of Cleared: the cleanup clears nothing.
ClearedNothing(timers) == timers

\* The timers left by the effect's cleanup, clearTimeout(t): t is the timer
\* the previous run of the effect armed, the only one that can be pending.
Cleared(timers) == {}

\* The mounted component: the effect has armed the timer for the initial
\* inputs.
InitPlanner ==
    /\ pInputs = InitialInputs
    /\ pLoaded = FALSE
    /\ pTimer = {Timer(InitialInputs)}
    /\ pInflight = {}
    /\ pRoutes = <<>>
    /\ heap = <<>>
    /\ pNextId = 0
    /\ pLast = [op |-> "init", threw |-> FALSE]

\* useJsApiLoader reports the script as loaded: the UI replaces the
\* "Loading map..." notice.
MapsLoaded ==
    /\ ~pLoaded
    /\ pLoaded' = TRUE
    /\ pLast' = [op |-> "mapsLoaded", threw |-> FALSE]
    /\ UNCHANGED <<pInputs, pTimer, pInflight, pRoutes, heap, pNextId>>
    /\ UNCHANGED <<appVars, fnVars>>

\* A change of an input: fetchRoute is rebuilt, the effect's cleanup clears
\* the pending timer and the effect arms a new one for the new inputs.
SetInput(f, v) ==
    /\ pLoaded
    /\ v # pInputs[f]
    /\ pInputs' = [pInputs EXCEPT ![f] = v]
    /\ pTimer' = Cleared(pTimer) \cup {Timer(pInputs')}
    /\ pLast' = [op |-> "setInput", threw |-> FALSE]
    /\ UNCHANGED <<pLoaded, pInflight, pRoutes, heap, pNextId>>
    /\ UNCHANGED <<appVars, fnVars>>

\* Timer tm fires and runs its fetchRoute up to `await fetch(url)`.
TimerFires(tm) ==
    /\ tm \in pTimer
    /\ pTimer' = pTimer \ {tm}
    /\ pLast' = [op |-> "timerFires", threw |-> FALSE]
    /\ IF tm.inputs.origin = "" \/ tm.inputs.destination = ""
       THEN UNCHANGED <<pInflight, pRoutes, heap, pNextId>>
       ELSE /\ pNextId < MaxPlanRequests
            /\ pNextId' = pNextId + 1
            /\ pRoutes' = <<>>
            /\ heap' = heap
            /\ pInflight' = pInflight \cup
                   {[id |-> pNextId + 1, inputs |-> tm.inputs]}
    /\ UNCHANGED <<pInputs, pLoaded>>
    /\ UNCHANGED <<appVars, fnVars>>

\* showAlternatives ? data.routes || [] : data.routes?.slice(0, 1) || []
Shown(data, alternatives) ==
    LET all == Or(data.routes, Arr(<<>>)).v
    IN IF alternatives THEN all ELSE SubSeq(all, 1, IF Len(all) > 0 THEN 1 ELSE 0)

\* The continuation of fetchRoute after `await res.json()`: the parsed
\* route objects are new objects, and setRoutes publishes references to them.
PlanResponse(req, data) ==
    LET shown == Shown(data, req.inputs.showAlternatives)
        n == Len(shown)
    IN /\ req \in pInflight
       /\ pInflight' = pInflight \ {req}
       /\ heap' = heap \o [i \in 1..n |-> [from |-> req.id, obj |-> shown[i]]]
       /\ pRoutes' = [i \in 1..n |-> Len(heap) + i]
       /\ pLast' = [op |-> "planResponse", threw |-> FALSE]
       /\ UNCHANGED <<pInputs, pLoaded, pTimer, pNextId>>
       /\ UNCHANGED <<appVars, fnVars>>

\* fetch or res.json() rejects: the catch logs.
PlanFails(req) ==
    /\ req \in pInflight
    /\ pInflight' = pInflight \ {req}
    /\ pLast' = [op |-> "planFails", threw |-> FALSE]
    /\ UNCHANGED <<pInputs, pLoaded, pTimer, pRoutes, heap, pNextId>>
    /\ UNCHANGED <<appVars, fnVars>>

SimulatedEvent ==
    [title |-> Str("Simulated Test Event"),
     url |-> Str("https://ticketmaster.com"),
     start_time |-> Str("2025-12-01T10:00"),
     distance_from_route_m |-> Num(420), venue |-> Str("Test Arena"),
     address |-> Str("123 Test Street"), capacity |-> Num(12000)]

\* The object updated[0] after simulateEvent: events_nearby is created when
\* missing and the event is pushed onto it.
WithSimulatedEvent(obj) ==
    [obj EXCEPT !.events_nearby =
        Arr(Append(IF Truthy(obj.events_nearby) THEN obj.events_nearby.v
                   ELSE <<>>, SimulatedEvent))]

\* The heap after simulateEvent's push: updated = [...routes] copies the
\* references, so updated[0] is the object routes[0] refers to.
HeapAfterSimulate(h, refs) ==
    [h EXCEPT ![refs[1]].obj = WithSimulatedEvent(h[refs[1]].obj)]

\* onClick={simulateEvent}. With no route displayed, updated[0] is
\* undefined and reading its events_nearby raises a TypeError.
SimulateEvent ==
    /\ pLoaded
    /\ IF pRoutes = <<>>
       THEN /\ pLast' = [op |-> "simulateEvent", threw |-> TRUE]
            /\ UNCHANGED <<pRoutes, heap>>
       ELSE /\ Truthy(heap[pRoutes[1]].obj.events_nearby) =>
                Len(heap[pRoutes[1]].obj.events_nearby.v) < MaxSimulated
            /\ heap' = HeapAfterSimulate(heap, pRoutes)
            /\ pRoutes' = pRoutes
            /\ pLast' = [op |-> "simulateEvent", threw |-> FALSE]
    /\ UNCHANGED <<pInputs, pLoaded, pTimer, pInflight, pNextId>>
    /\ UNCHANGED <<appVars, fnVars>>

\* No pipeline function is being applied.
IdleFn == input = Undef /\ output = Undef

Next ==
    \/ \E m \in Modes : SetMode(m)
    \/ \E b \in BOOLEAN : SetShowAlternatives(b)
    \/ \E place \in OriginPlaces : HandleOriginSelect(place)
    \/ \E place \in DestinationPlaces : HandleDestinationSelect(place)
    \/ \E req \in inflight : \E data \in DirectionsResponses(req) :
           DirectionsResponse(req, data)
    \/ \E req \in inflight : \E data \in TransitResponses :
           TransitResponse(req, data)
    \/ \E req \in inflight : RequestFails(req)

Init == InitApp /\ IdleFn /\ InitPlanner

Spec == Init /\ [][Next]_vars

NextPlanner ==
    \/ \E f \in DOMAIN InitialInputs : \E v \in InputValues(f) :
           SetInput(f, v)
    \/ MapsLoaded
    \/ \E tm \in pTimer : TimerFires(tm)
    \/ \E req \in pInflight : \E data \in PlanResponses :
           PlanResponse(req, data)
    \/ \E req \in pInflight : PlanFails(req)
    \/ SimulateEvent

SpecPlanner == Init /\ [][NextPlanner]_vars

-----------------------------------------------------------------------------
(* The pipeline functions applied to drawn inputs *)

MaxAlerts == 3

MaxEvents == 3

\* All sequences over S of length at most n.
SeqsUpTo(S, n) == UNION {[1..k -> S] : k \in 0..n}

Weather(rain, snow, customAlerts) ==
    [t |-> "object", temp |-> Num(12), feels_like |-> Num(10),
     humidity |-> Num(40), wind_speed |-> Num(3),
     weather_main |-> Str("Clouds"), weather_desc |-> Str("few clouds"),
     rain_1h |-> rain, snow_1h |-> snow, custom_alerts |-> customAlerts]

Alert(severity) ==
    [title |-> Str("Wind"), message |-> Str("Gusts"), severity |-> severity]

Weathers ==
    {Undef} \cup
    { Weather(rain, snow, al) :
        rain \in {Undef, Num(0), Num(2)}, snow \in {Undef, Num(0)},
        al \in {Undef, Arr(<<Alert(Str("high"))>>)} }

\* An event object; id stands for the object's identity.
Event(id, dateTime, startTime) ==
    [id |-> id, date_time |-> dateTime, start_time |-> startTime]

EventLists ==
    {Undef, Arr(<<>>), Arr(<<Event(1, Str("2025-12-01T10:00"), Undef)>>)}

FirstLegValues(unit) == {Undef, Value(0), Value(30 * unit)}

RichCandidates ==
    { Candidate(sm, Arr(<<Leg(du, di)>> \o more), poly) :
        sm \in {Undef, Str(""), Str("US-36")},
        du \in FirstLegValues(60),
        di \in FirstLegValues(1000),
        more \in {<<>>, <<Leg(Value(600), Value(9000))>>},
        poly \in {Points(<<>>), Points(<<<<2, 4>>, <<1, 3>>>>)} }

RichRouteLists ==
    {Undef, Null, Arr(<<>>),
     Arr(<<CandidateNoGeometry>>),
     Arr(<<Candidate(Str("US-36"), Arr(<<>>), Points(<<>>))>>)}
    \cup {Arr(<<c>>) : c \in RichCandidates}
    \cup {Arr(<<c, CandidateB>>) : c \in RichCandidates}

DirectionsRequests ==
    { Request(1, "directions", m, o, d, FALSE) :
        m \in Modes \ {"transit"}, o \in OriginPlaces,
        d \in DestinationPlaces }

\* The coordinates a response carries: those of the request, other ones, or
\* none.
EchoedBy(req) ==
    { [olat |-> Num(req.origin.lat), olon |-> Num(req.origin.lon),
       dlat |-> Num(req.destination.lat), dlon |-> Num(req.destination.lon)],
      [olat |-> Num(req.origin.lat + 1), olon |-> Num(req.origin.lon),
       dlat |-> Num(req.destination.lat), dlon |-> Num(req.destination.lon - 1)],
      [olat |-> Undef, olon |-> Undef, dlat |-> Undef, dlon |-> Undef] }

DirectionsInputs ==
    UNION { { [kind |-> "directions", req |-> req,
               data |-> Directions(rts, c.olat, c.olon, c.dlat, c.dlon,
                                   Undef, Undef)] :
                rts \in RichRouteLists, c \in EchoedBy(req) }
            \cup
            { [kind |-> "directions", req |-> req,
               data |-> Directions(Arr(<<CandidateA>>), Num(req.origin.lat),
                                   Num(req.origin.lon),
                                   Num(req.destination.lat),
                                   Num(req.destination.lon), w, ev)] :
                w \in Weathers, ev \in EventLists } :
          req \in DirectionsRequests }

TransitRequests ==
    { Request(1, "transit", "transit", o, d, FALSE) :
        o \in OriginPlaces, d \in DestinationPlaces }

TransitSections ==
    {Undef,
     [t |-> "object", legs |-> Undef],
     [t |-> "object", legs |-> Arr(<<>>)]}
    \cup
    { [t |-> "object",
       legs |-> Arr(<<TransitLeg(rid, tid, st)>> \o more)] :
        rid \in {Undef, Str("SKIP")}, tid \in {Undef, Str("t1")},
        st \in {Undef, Arr(<<>>), Arr(<<"Broadway", "Table Mesa">>)},
        more \in {<<>>, <<TransitLeg(Str("AB1"), Str("t2"), Arr(<<"DIA">>))>>} }

TransitInputs ==
    { [kind |-> "transit", req |-> req,
       data |-> Transit(err, tr, ws, wd, Undef, Undef)] :
        req \in TransitRequests,
        err \in {Undef, Str("No transit found")},
        tr \in TransitSections,
        ws \in {Undef, WalkA}, wd \in {Undef, WalkB} }
    \cup
    { [kind |-> "transit", req |-> req,
       data |-> Transit(Undef, Undef, WalkA, WalkB, w, ev)] :
        req \in TransitRequests, w \in Weathers, ev \in EventLists }

\* The severities an alert can carry: the three tiers, unknown ones, none.
Severities ==
    {Str("low"), Str("medium"), Str("high"), Str("extreme"),
     Str("constructor"), Undef}

AlertInputs ==
    { [kind |-> "alerts", route |-> [alerts |-> al]] :
        al \in {Undef, [t |-> "object", custom_alerts |-> Undef]} }
    \cup
    { [kind |-> "alerts",
       route |-> [alerts |-> [t |-> "object",
                              custom_alerts |-> Arr([i \in DOMAIN sv |->
                                                        Alert(sv[i])])]]] :
        sv \in SeqsUpTo(Severities, MaxAlerts) }

\* The timestamp fields of an event: the live-feed shape (date_time), the
\* ticketing shape (start_time), a string that is no date, an empty
\* date_time, and no timestamp at all.
EventShapes ==
    { [date_time |-> Str(ts), start_time |-> Undef] :
        ts \in DOMAIN IsoHours \cup {"soon"} }
    \cup
    { [date_time |-> Undef, start_time |-> Str(ts)] :
        ts \in {"2025-12-01T08:00", "2025-12-02T09:00"} }
    \cup
    { [date_time |-> Undef, start_time |-> Undef],
      [date_time |-> Str(""), start_time |-> Undef] }

\* The current time new Date() returns, in the hours of IsoHours.
Nows == {Num(9), Num(40)}

EventInputs ==
    { [kind |-> "events", now |-> now,
       wrapper |-> Arr([i \in DOMAIN sh |->
                           Event(i, sh[i].date_time, sh[i].start_time)])] :
        now \in Nows, sh \in SeqsUpTo(EventShapes, MaxEvents) }
    \cup
    { [kind |-> "events", now |-> now, wrapper |-> w] :
        now \in Nows,
        w \in {Undef, [t |-> "object", events |-> Undef],
               [t |-> "object",
                events |-> Arr(<<Event(1, Str("2025-12-01T10:00"), Undef)>>)]} }

MaxWaypoints == 2

MaxFitRoutes == 2

\* A coordinate object {lat, lng}.
Coord(lat, lng) == [t |-> "object", lat |-> lat, lng |-> lng]

\* The fields of a displayed route that the map reads.
DisplayedRoute(start, wps, end, coords, poly) ==
    [start_location |-> start, waypoint_locations |-> wps,
     end_location |-> end, polylineCoords |-> coords, polyline |-> poly]

WaypointCoords == {Coord(40, -105), Coord(39, -105)}

\* Displayed route sets for buildMarkers: none, or a first route with or
\* without its locations and waypoints, followed or not by an alternative.
MarkerInputs ==
    {[kind |-> "markers", routes |-> <<>>]}
    \cup
    { [kind |-> "markers",
       routes |-> <<DisplayedRoute(st, wps, en, <<>>, Undef)>> \o more] :
        st \in {Undef, Coord(40, -106)},
        en \in {Undef, Null, Coord(39, -104)},
        wps \in {Undef} \cup
                {Arr(ws) : ws \in SeqsUpTo(WaypointCoords, MaxWaypoints)},
        more \in {<<>>,
                  <<DisplayedRoute(Coord(38, -106), Arr(<<Coord(41, -105)>>),
                                   Coord(37, -103), <<>>, Undef)>>} }

\* A point of a path.
Point(lat, lng) == [lat |-> lat, lng |-> lng]

\* The paths a displayed route can carry in polylineCoords.
FitPaths ==
    {<<>>,
     <<Point(0, 0), Point(1, 1)>>,
     <<Point(-1, 2)>>,
     <<Point(3, -2), Point(2, 5)>>}

\* Displayed route sets for the fit effect, with the viewport before it.
FitInputs ==
    { [kind |-> "fit", view |-> view,
       routes |-> [i \in DOMAIN rs |->
                      DisplayedRoute(Undef, Undef, Undef, rs[i].coords,
                                     rs[i].poly)]] :
        view \in {InitialViewport,
                  [t |-> "fitBounds",
                   bounds |-> Extend(EmptyBounds, Point(7, 7))]},
        rs \in SeqsUpTo([coords : FitPaths,
                         poly : {Undef, Str(<<>>),
                                 Str(<<<<2, 4>>, <<1, 3>>>>)}],
                        MaxFitRoutes) }

MaxCardEvents == 2

\* An event in the ticketing shape: title, start_time, venue.
TicketEvent(id, title, time, venue) ==
    [id |-> id, title |-> title, start_time |-> time, venue |-> venue,
     name |-> Undef, date_time |-> Undef, venue_name |-> Undef]

\* The same event in the live-feed shape: name, date_time, venue_name.
LiveEvent(id, title, time, venue) ==
    [id |-> id, name |-> title, date_time |-> time, venue_name |-> venue,
     title |-> Undef, start_time |-> Undef, venue |-> Undef]

\* Events of both shapes, today or on another day, with or without a venue.
CardEvents(id) ==
    UNION { {TicketEvent(id, Str("Concert"), Str(ts), venue),
             LiveEvent(id, Str("Concert"), Str(ts), venue)} :
              ts \in {"2025-12-01T10:00", "2025-12-02T09:00"},
              venue \in {Undef, Str("Test Arena")} }

CardInputs ==
    { [kind |-> "cards", now |-> now, wrapper |-> Arr(evs)] :
        now \in Nows,
        evs \in UNION { {f \in [1..k -> CardEvents(1) \cup CardEvents(2)] :
                            \A i \in 1..k : f[i].id = i} :
                         k \in 0..MaxCardEvents } }

InitPipeline ==
    /\ InitApp
    /\ InitPlanner
    /\ input \in DirectionsInputs \cup TransitInputs \cup AlertInputs
                 \cup EventInputs \cup MarkerInputs \cup FitInputs
                 \cup CardInputs
    /\ output = Undef

\* fetchGoogleRoute's normalization applied to a response, nothing displayed.
ApplyFromDirections ==
    /\ input.kind = "directions" /\ output = Undef
    /\ output' = IF DirectionsThrows(input.data) THEN [t |-> "throws"]
                 ELSE [t |-> "routes",
                       v |-> DirectionsResult(input.data, input.req.mode, <<>>)]
    /\ UNCHANGED <<input, appVars, plannerVars>>

\* fetchTransitRoute's normalization applied to a response.
ApplyFromTransit ==
    /\ input.kind = "transit" /\ output = Undef
    /\ output' = [t |-> "routes",
                  v |-> TransitResult(input.data, input.req, <<>>),
                  alerted |-> TransitAlerts(input.data, <<>>)]
    /\ UNCHANGED <<input, appVars, plannerVars>>

\* RouteCard's impact level of a route.
ApplyImpactLevel ==
    /\ input.kind = "alerts" /\ output = Undef
    /\ output' = [t |-> "impact", v |-> ImpactLevel(input.route)]
    /\ UNCHANGED <<input, appVars, plannerVars>>

\* renderEvents applied to a route's events_nearby.
ApplyRenderEvents ==
    /\ input.kind = "events" /\ output = Undef
    /\ output' = RenderEvents(input.wrapper, input.now)
    /\ UNCHANGED <<input, appVars, plannerVars>>

\* The markers rendered for a displayed route set.
ApplyBuildMarkers ==
    /\ input.kind = "markers" /\ output = Undef
    /\ output' = [t |-> "markers", v |-> RenderedMarkers(input.routes)]
    /\ UNCHANGED <<input, appVars, plannerVars>>

\* The fit effect run for a displayed route set.
ApplyFit ==
    /\ input.kind = "fit" /\ output = Undef
    /\ output' = [t |-> "viewport", v |-> FitEffect(input.routes, input.view)]
    /\ UNCHANGED <<input, appVars, plannerVars>>

\* The event cards drawn for a route's events_nearby.
ApplyRenderEventCards ==
    /\ input.kind = "cards" /\ output = Undef
    /\ output' = RenderedEventCards(input.wrapper, input.now)
    /\ UNCHANGED <<input, appVars, plannerVars>>

\* renderAlerts(route.alerts?.custom_alerts, darkMode)
ApplyRenderAlerts(darkMode) ==
    /\ input.kind = "alerts" /\ output = Undef
    /\ output' = [t |-> "alerts", dark |-> darkMode,
                  v |-> RenderAlerts(OptCustomAlerts(input.route.alerts),
                                     darkMode)]
    /\ UNCHANGED <<input, appVars, plannerVars>>

NextPipeline ==
    \/ ApplyFromDirections
    \/ ApplyFromTransit
    \/ ApplyImpactLevel
    \/ ApplyRenderEvents
    \/ ApplyBuildMarkers
    \/ ApplyFit
    \/ ApplyRenderEventCards
    \/ \E darkMode \in BOOLEAN : ApplyRenderAlerts(darkMode)

SpecPipeline == InitPipeline /\ [][NextPipeline]_vars

-----------------------------------------------------------------------------
(* Properties of the planner's runs *)

ResponseHasNoRoutes(data) ==
    \/ data.routes.t \in {"undefined", "null"}
    \/ data.routes.t = "array" /\ data.routes.v = <<>>

\* C1: after a directions response whose `routes` is absent or empty has
\* been handled, the displayed route set is the empty sequence: whatever was
\* displayed before is cleared.
C1_EmptyDirectionsClears ==
    (last.op = "directionsResponse" /\ ResponseHasNoRoutes(last.data))
        => routes = <<>>

\* C1 witness: an empty response was handled while routes were displayed.
C1_Witness ==
    /\ last.op = "directionsResponse"
    /\ ResponseHasNoRoutes(last.data)
    /\ last.before > 0
    /\ routes = <<>>

FromPayload(data) ==
    \E i \in 1..Len(routes) : routes[i].transit_raw = data

\* C2: after a transit response that carries an error has been handled, the
\* error message is the newest message shown to the user and no displayed
\* route comes from that payload; after a transit response without error the
\* displayed set is the one route built from the payload. The two outcomes
\* differ, and the error is not only an empty route set.
C2_TransitErrorSurfaced ==
    last.op = "transitResponse" =>
        IF last.data.error.t = "string"
        THEN /\ alerted # <<>>
             /\ alerted[Len(alerted)] = last.data.error.v
             /\ ~FromPayload(last.data)
        ELSE Len(routes) = 1 /\ FromPayload(last.data)

\* C2 witness: an error response of the transit planner has been handled.
C2_Witness ==
    /\ last.op = "transitResponse"
    /\ last.data.error.t = "string"
    /\ alerted # <<>>
    /\ routes = <<>>

\* C5: once no request is in flight and the newest request has been answered
\* (it did not end in the catch block), the displayed route set is the one
\* the newest request produced.
C5_LatestRequestWins ==
    (inflight = {} /\ newest.state = "done") => routes = newest.v

-----------------------------------------------------------------------------
(* Properties of the pipeline functions *)

Produced == output.t = "routes"

\* C3: a numeric field that is present with value 0 in the payload (the
\* first leg's duration and distance, the weather's rain_1h and snow_1h) is
\* 0 in every route built from it, never null or absent.
C3_ZeroIsCarried ==
    (Produced /\ input.kind = "directions") =>
        \A i \in 1..Len(output.v) :
            LET leg == input.data.routes.v[i].legs.v[1]
                r == output.v[i]
                w == input.data.weather
            IN /\ OptValue(leg.duration) = Num(0) => r.duration_min = Num(0)
               /\ OptValue(leg.distance) = Num(0) => r.distance_km = Num(0)
               /\ (w.t = "object" /\ w.rain_1h = Num(0)) =>
                      (r.weather.t = "object" /\ r.weather.rain_1h = Num(0))
               /\ (w.t = "object" /\ w.snow_1h = Num(0)) =>
                      (r.weather.t = "object" /\ r.weather.snow_1h = Num(0))

Requested(req) ==
    [start |-> [lat |-> Num(req.origin.lat), lng |-> Num(req.origin.lon)],
     end |-> [lat |-> Num(req.destination.lat),
              lng |-> Num(req.destination.lon)]]

\* C6 as stated: on both paths every route's start_location and
\* end_location are the coordinates requested for that plan request.
C6_EndpointsAreRequested ==
    Produced =>
        \A i \in 1..Len(output.v) :
            /\ output.v[i].start_location = Requested(input.req).start
            /\ output.v[i].end_location = Requested(input.req).end

\* C6 amended: on the transit path every route's start_location and
\* end_location are the requested coordinates; on the directions path they
\* are the response's origin_lat/origin_lon and
\* destination_lat/destination_lon; on neither path do they depend on the
\* legs or on the decoded geometry.
C6_EndpointsFromRequestOrResponse ==
    Produced =>
        \A i \in 1..Len(output.v) :
            IF input.kind = "transit"
            THEN /\ output.v[i].start_location = Requested(input.req).start
                 /\ output.v[i].end_location = Requested(input.req).end
            ELSE /\ output.v[i].start_location =
                        [lat |-> input.data.origin_lat,
                         lng |-> input.data.origin_lon]
                 /\ output.v[i].end_location =
                        [lat |-> input.data.destination_lat,
                         lng |-> input.data.destination_lon]

\* C6 witness: a directions route with a decoded geometry whose first point
\* is not its start_location.
C6_Witness ==
    /\ Produced /\ input.kind = "directions"
    /\ Len(output.v) = 2
    /\ output.v[1].polylineCoords # <<>>
    /\ output.v[1].start_location.lat.t = "number"
    /\ output.v[1].start_location.lat.v # output.v[1].polylineCoords[1].lat

SeverityRank(level) ==
    CASE level = "low" -> 1
      [] level = "medium" -> 2
      [] level = "high" -> 3
      [] OTHER -> 0

\* The severities of the alerts of a route, as a set.
SeveritiesOf(route) ==
    IF route.alerts.t = "object" /\ route.alerts.custom_alerts.t = "array"
    THEN { route.alerts.custom_alerts.v[i].severity :
             i \in 1..Len(route.alerts.custom_alerts.v) }
    ELSE {}

\* C7: the impact level is the maximum, under low < medium < high, of the
\* recognized severities of the alerts, and low for an empty or absent list.
C7_ImpactIsMaximum ==
    output.t = "impact" =>
        LET sv == SeveritiesOf(input.route)
            ranks == {1} \cup { SeverityRank(x.v) : x \in {y \in sv : y.t = "string"} }
        IN /\ output.v \in {"low", "medium", "high"}
           /\ \A k \in ranks : SeverityRank(output.v) >= k
           /\ SeverityRank(output.v) \in ranks

\* C7 witness: a high alert after a low and a medium one resolves to high.
C7_Witness ==
    /\ output.t = "impact" /\ output.v = "high"
    /\ input.route.alerts.t = "object"
    /\ input.route.alerts.custom_alerts.t = "array"
    /\ Len(input.route.alerts.custom_alerts.v) = 3
    /\ input.route.alerts.custom_alerts.v[1].severity = Str("low")
    /\ input.route.alerts.custom_alerts.v[2].severity = Str("medium")

NonEmptyString(x) == x.t = "string" /\ x.v # ""

\* An event that has a timestamp, and the timestamp.
HasTimestamp(e) == NonEmptyString(e.date_time) \/ NonEmptyString(e.start_time)

TimestampOf(e) ==
    IF NonEmptyString(e.date_time) THEN e.date_time ELSE e.start_time

DayOf(e) == Midnight(DateParse(TimestampOf(e)))

\* How often event e is shown under today, and where under the other days.
TimesToday(e) ==
    Cardinality({j \in 1..Len(output.today) : output.today[j].base = e})

PlacesOther(e) ==
    { <<g, j>> \in (1..Len(output.others)) \X (1..MaxEvents + 1) :
        /\ j <= Len(output.others[g].entries)
        /\ output.others[g].entries[j].base = e }

\* C8: every event with a timestamp is shown exactly once: under today iff
\* its day is the day of the current time, otherwise in the group of its own
\* day.
C8_PlacedExactlyOnce ==
    output.t = "grouped" =>
        \A i \in 1..Len(RawEvents(input.wrapper)) :
            LET e == RawEvents(input.wrapper)[i]
            IN HasTimestamp(e) =>
                 IF DayOf(e) = Midnight(input.now)
                 THEN TimesToday(e) = 1 /\ PlacesOther(e) = {}
                 ELSE /\ TimesToday(e) = 0
                      /\ Cardinality(PlacesOther(e)) = 1
                      /\ \A pl \in PlacesOther(e) :
                             output.others[pl[1]].key = DayOf(e)

\* C8 witness: one event today and one tomorrow, each shown once.
C8_Witness ==
    /\ output.t = "grouped"
    /\ Len(RawEvents(input.wrapper)) = 2
    /\ Len(output.today) = 1
    /\ Len(output.others) = 1
    /\ Len(output.others[1].entries) = 1
    /\ output.others[1].key = Num(HoursPerDay)

Ascending(entries) ==
    \A j \in 1..Len(entries), k \in 1..Len(entries) :
        (j < k /\ entries[j].time.t = "number" /\ entries[k].time.t = "number")
            => entries[j].time.v <= entries[k].time.v

\* C9: the entries under today and in every other-day group are in ascending
\* timestamp order, and the other-day groups are in ascending day order.
C9_ChronologicalOrder ==
    output.t = "grouped" =>
        /\ Ascending(output.today)
        /\ \A g \in 1..Len(output.others) : Ascending(output.others[g].entries)
        /\ \A g \in 1..Len(output.others), h \in 1..Len(output.others) :
               (g < h /\ output.others[g].key.t = "number"
                      /\ output.others[h].key.t = "number")
                   => output.others[g].key.v < output.others[h].key.v

\* C10: events without a timestamp are shown nowhere, and the grouping is
\* the grouping of the events that have one.
C10_UntimedLeftOut ==
    output.t = "grouped" =>
        LET kept == SelectSeq(RawEvents(input.wrapper), HasTimestamp)
            ref == GroupsByDate(kept, <<>>)
        IN /\ output.today = TodayEvents(ref, Midnight(input.now))
           /\ output.others = OtherDayGroups(ref, Midnight(input.now))
           /\ \A j \in 1..Len(output.today) : HasTimestamp(output.today[j].base)
           /\ \A g \in 1..Len(output.others) :
                  \A j \in 1..Len(output.others[g].entries) :
                      HasTimestamp(output.others[g].entries[j].base)

\* C10 witness: an event without a timestamp between two events that are
\* shown.
C10_Witness ==
    /\ output.t = "grouped"
    /\ Len(RawEvents(input.wrapper)) = 3
    /\ ~HasTimestamp(RawEvents(input.wrapper)[2])
    /\ RawEvents(input.wrapper)[2].date_time.t = "undefined"
    /\ Len(output.today) = 1
    /\ Len(output.others) = 1

-----------------------------------------------------------------------------
(* Properties of the debounced planner *)

\* C4: the displayed route set is only replaced as a whole: no step changes
\* a route object that has been published (the heap holds exactly the
\* objects handed to setRoutes), and the displayed routes all come from the
\* response to one request.
C4_PublishedNeverModified ==
    [][ /\ \A ref \in DOMAIN heap : heap'[ref] = heap[ref]
        /\ \A i \in DOMAIN pRoutes', j \in DOMAIN pRoutes' :
               heap'[pRoutes'[i]].from = heap'[pRoutes'[j]].from ]_vars


-----------------------------------------------------------------------------
(* Properties of the map derivations *)

Marked == input.kind = "markers" /\ output.t = "markers"

\* 1 when the location is set on the route, 0 otherwise.
Has(loc) == IF loc.t = "object" THEN 1 ELSE 0

WaypointsOf(r) ==
    IF r.waypoint_locations.t = "array" THEN r.waypoint_locations.v ELSE <<>>

FirstLetters == <<"A", "B", "C", "D", "E", "F", "G">>

\* C11: the markers of a displayed route set are those of its first route:
\* the start marker (when the route has a start), one marker per waypoint
\* coordinate in the given order, the end marker (when it has an end); the
\* marker at position i (0-based) carries the i-th capital letter; there is
\* no marker when no route is displayed.
C11_MarkersInOrder ==
    Marked =>
        IF input.routes = <<>> THEN output.v = <<>>
        ELSE LET r == input.routes[1]
                 st == Has(r.start_location)
                 en == Has(r.end_location)
                 wps == WaypointsOf(r)
                 n == Len(output.v)
             IN /\ n = st + Len(wps) + en
                /\ st = 1 => output.v[1].position = r.start_location
                /\ \A k \in 1..Len(wps) : output.v[st + k].position = wps[k]
                /\ en = 1 => output.v[n].position = r.end_location
                /\ \A i \in 1..n : output.v[i].label = FirstLetters[i]

\* C11 witness: a start, two distinct waypoint coordinates and an end give
\* the four markers A, B, C, D.
C11_Witness ==
    /\ Marked
    /\ Len(output.v) = 4
    /\ input.routes[1].start_location.t = "object"
    /\ Len(WaypointsOf(input.routes[1])) = 2
    /\ output.v[2].position # output.v[3].position
    /\ [i \in 1..4 |-> output.v[i].label] = <<"A", "B", "C", "D">>

AllPathsEmpty(rts) == \A i \in 1..Len(rts) : DecodedRoute(rts[i]) = <<>>

\* C12: a render whose displayed routes all have an empty path leaves the
\* viewport as it was, and the viewport is never set from empty bounds.
C12_EmptyFitKeepsViewport ==
    [][ /\ AllPathsEmpty(routes') => viewport' = viewport
        /\ viewport'.t = "fitBounds" => viewport'.bounds # EmptyBounds ]_vars

Fitted == input.kind = "fit" /\ output.t = "viewport"

\* Every coordinate of every path of the displayed routes.
AllPoints(rts) ==
    UNION { {DecodedRoute(rts[i])[k] : k \in 1..Len(DecodedRoute(rts[i]))} :
              i \in 1..Len(rts) }

Least(S) == CHOOSE m \in S : \A x \in S : m <= x

Greatest(S) == CHOOSE m \in S : \A x \in S : m >= x

\* C13: when some displayed path has a point, the fitted region is the
\* smallest box that holds every point of every path of every displayed
\* route: its corners are (min lat, min lng) and (max lat, max lng).
C13_FitIsBoundingBox ==
    (Fitted /\ AllPoints(input.routes) # {}) =>
        LET pts == AllPoints(input.routes)
        IN output.v =
               [t |-> "fitBounds",
                bounds |-> [t |-> "box",
                            south |-> Least({p.lat : p \in pts}),
                            west |-> Least({p.lng : p \in pts}),
                            north |-> Greatest({p.lat : p \in pts}),
                            east |-> Greatest({p.lng : p \in pts})]]

\* C13 witness: the paths [(0,0),(1,1)] and [(-1,2)] are fitted to the box
\* from (-1,0) to (1,2).
C13_Witness ==
    /\ Fitted
    /\ Len(input.routes) = 2
    /\ DecodedRoute(input.routes[1]) = <<Point(0, 0), Point(1, 1)>>
    /\ DecodedRoute(input.routes[2]) = <<Point(-1, 2)>>
    /\ output.v.bounds = [t |-> "box", south |-> -1, west |-> 0,
                          north |-> 1, east |-> 2]


-----------------------------------------------------------------------------
(* Properties of the normalization of missing and partial payloads *)

NoAlertList(data) ==
    data.weather = Undef \/ data.weather.custom_alerts = Undef

\* C14 as stated: without `weather` in the payload every route's weather is
\* undefined; without an alert list the route's alerts is the empty
\* sequence; without events events_nearby is the empty sequence.
C14_MissingContextUndefined ==
    Produced =>
        \A i \in 1..Len(output.v) :
            LET r == output.v[i]
                d == input.data
            IN /\ d.weather = Undef => r.weather = Undef
               /\ NoAlertList(d) => r.alerts = Arr(<<>>)
               /\ d.events_nearby = Undef => r.events_nearby = Arr(<<>>)

\* C14 amended: on both paths, without `weather` in the payload every
\* route's weather is null (no placeholder object); without an alert list
\* the route's alerts is an object whose custom_alerts is the empty
\* sequence; without events events_nearby is the empty sequence.
C14_MissingContextDefaults ==
    Produced =>
        \A i \in 1..Len(output.v) :
            LET r == output.v[i]
                d == input.data
            IN /\ d.weather = Undef => r.weather = Null
               /\ NoAlertList(d) => r.alerts = [custom_alerts |-> Arr(<<>>)]
               /\ d.events_nearby = Undef => r.events_nearby = Arr(<<>>)

\* C14 witness: a transit route built from a payload without weather and
\* without events.
C14_Witness ==
    /\ Produced /\ input.kind = "transit"
    /\ Len(output.v) = 1
    /\ input.data.weather = Undef /\ input.data.events_nearby = Undef
    /\ output.v[1].weather = Null
    /\ output.v[1].alerts.custom_alerts = Arr(<<>>)

NoGeometry(candidate) ==
    \/ candidate.overview_polyline.t # "object"
    \/ candidate.overview_polyline.points.t # "string"

\* C15: after a directions response with candidates has been handled, every
\* candidate is displayed, a candidate without geometry with an empty path.
C15_CandidateFailureRecovered ==
    (last.op = "directionsResponse" /\ ~ResponseHasNoRoutes(last.data)) =>
        /\ Len(routes) = Len(last.data.routes.v)
        /\ \A i \in 1..Len(routes) :
               NoGeometry(last.data.routes.v[i]) =>
                   routes[i].polylineCoords = <<>>

BothSet(o, d) == o.t = "object" /\ d.t = "object"

TransitRoute ==
    Produced /\ input.kind = "transit" /\ Len(output.v) = 1

\* The legs of the payload's transit section, none when it has no section
\* or no legs.
LegsOf(data) ==
    IF data.transit.t = "object" /\ data.transit.legs.t = "array"
    THEN data.transit.legs.v ELSE <<>>

\* C17: the route built from a transit response has no duration_min and no
\* distance_km; its summary is "Walking only" without transit legs, and
\* with legs "Transit via " followed by the first leg's route_id, or by its
\* trip_id when it has no route_id.
C17_TransitSummary ==
    TransitRoute =>
        LET r == output.v[1]
            legs == LegsOf(input.data)
        IN /\ r.duration_min = Null /\ r.distance_km = Null
           /\ legs = <<>> => r.summary = Str("Walking only")
           /\ (legs # <<>> /\ legs[1].route_id.t = "string") =>
                  r.summary = Str("Transit via " \o legs[1].route_id.v)
           /\ ( /\ legs # <<>>
                /\ legs[1].route_id = Undef
                /\ legs[1].trip_id.t = "string" ) =>
                  r.summary = Str("Transit via " \o legs[1].trip_id.v)

\* C17 witness: a first leg with a route_id and a trip_id is named by its
\* route_id.
C17_Witness ==
    /\ TransitRoute
    /\ LegsOf(input.data) # <<>>
    /\ LegsOf(input.data)[1].route_id = Str("SKIP")
    /\ LegsOf(input.data)[1].trip_id = Str("t1")
    /\ output.v[1].summary = Str("Transit via SKIP")

\* The points of a walk list with lon renamed to lng, none for a missing list.
Renamed(list) ==
    IF list.t = "array"
    THEN [i \in 1..Len(list.v) |-> [lat |-> list.v[i].lat,
                                    lng |-> list.v[i].lon]]
    ELSE <<>>

\* C18: the path of the route built from a transit response is the
\* walk_to_stop points followed by the walk_to_destination points, each in
\* its order with lon as lng; a missing list contributes nothing, and
\* the legs contribute nothing.
C18_TransitPath ==
    TransitRoute =>
        output.v[1].polylineCoords =
            Renamed(input.data.walk_to_stop)
                \o Renamed(input.data.walk_to_destination)

\* C18 witness: both walk lists and transit legs are present, and the path
\* has the three walk points.
C18_Witness ==
    /\ TransitRoute
    /\ LegsOf(input.data) # <<>>
    /\ input.data.walk_to_stop = WalkA /\ input.data.walk_to_destination = WalkB
    /\ Len(output.v[1].polylineCoords) = 3
    /\ output.v[1].polylineCoords[1] = [lat |-> 40, lng |-> -105]
    /\ output.v[1].polylineCoords[3] = [lat |-> 39, lng |-> -104]

StopsOf(leg) ==
    IF leg.intermediate_stops.t = "array" THEN leg.intermediate_stops.v
    ELSE <<>>

\* The stops of the first n legs, leg after leg.
StopsUpTo(legs, n) ==
    LET f[k \in 0..n] == IF k = 0 THEN <<>> ELSE f[k - 1] \o StopsOf(legs[k])
    IN f[n]

\* C19: the stops of the route built from a transit response are the
\* intermediate_stops of every leg, in leg order and in each leg's order; a
\* leg without intermediate_stops contributes nothing, and without legs
\* stops is the empty list.
C19_TransitStops ==
    TransitRoute =>
        output.v[1].stops =
            Arr(StopsUpTo(LegsOf(input.data), Len(LegsOf(input.data))))

\* C19 witness: two legs with stops give the first leg's stops followed by
\* the second leg's.
C19_Witness ==
    /\ TransitRoute
    /\ Len(LegsOf(input.data)) = 2
    /\ output.v[1].stops = Arr(<<"Broadway", "Table Mesa", "DIA">>)

\* C20: duration_min and distance_km of a directions route come from the
\* candidate's first leg only: its duration / 60 and its distance / 1000
\* when they are non-zero, and null when the first leg has none, whatever
\* the further legs carry.
C20_FirstLegOnly ==
    (Produced /\ input.kind = "directions") =>
        \A i \in 1..Len(output.v) :
            LET leg == input.data.routes.v[i].legs.v[1]
                r == output.v[i]
            IN /\ (leg.duration.t = "object" /\ leg.duration.value.v # 0) =>
                      r.duration_min = Num(leg.duration.value.v \div 60)
               /\ leg.duration = Undef => r.duration_min = Null
               /\ (leg.distance.t = "object" /\ leg.distance.value.v # 0) =>
                      r.distance_km = Num(leg.distance.value.v \div 1000)
               /\ leg.distance = Undef => r.distance_km = Null

\* C20 witness: a candidate with two legs whose first leg lasts 1800 s over
\* 30000 m is a route of 30 min and 30 km.
C20_Witness ==
    /\ Produced /\ input.kind = "directions"
    /\ Len(output.v) >= 1
    /\ Len(input.data.routes.v[1].legs.v) = 2
    /\ input.data.routes.v[1].legs.v[1].duration = Value(1800)
    /\ input.data.routes.v[1].legs.v[2].duration = Value(600)
    /\ output.v[1].duration_min = Num(30)
    /\ output.v[1].distance_km = Num(30)


-----------------------------------------------------------------------------
(* Properties of failed requests and of the markers in the planner's runs *)

\* A fetch has just ended in the catch block: the fetch or the parsing was
\* rejected, or the mapping of the response raised.
JustFailed ==
    \/ last.op = "requestFails"
    \/ last.op = "directionsResponse" /\ DirectionsThrows(last.data)

\* C24 as stated: after a fetch has ended in the catch block with no
\* response handled since its issue, the displayed routes are those
\* displayed at its issue (the empty set on the transit path).
C24_FailureKeepsIssueState ==
    (JustFailed /\ last.since.quiet) => routes = last.since.shown

\* C24 amended: after a fetch has ended in the catch block with no response
\* handled and no transit fetch issued since its issue, the displayed routes
\* are those displayed at its issue (the empty set on the transit path); a
\* failure never publishes a route set of its own.
C24_FailureKeepsUndisturbedState ==
    (JustFailed /\ last.since.quiet /\ last.since.kept) =>
        routes = last.since.shown

\* C24 witness: a directions response whose mapping raised has been handled
\* while routes were displayed, and they are still displayed.
C24_Witness ==
    /\ last.op = "directionsResponse" /\ DirectionsThrows(last.data)
    /\ last.since.quiet /\ last.since.kept
    /\ last.since.shown # <<>>
    /\ routes = last.since.shown

\* C25: the rendered markers are none when no route is displayed, and
\* otherwise the two markers A at the start_location and B at the
\* end_location of the first displayed route, whatever stops it has and
\* however many alternatives are displayed.
C25_ZeroOrTwoMarkers ==
    RenderedMarkers(routes) =
        IF routes = <<>> THEN <<>>
        ELSE <<[position |-> routes[1].start_location, label |-> "A"],
               [position |-> routes[1].end_location, label |-> "B"]>>

\* C25 witness: two alternatives are displayed with two markers.
C25_Witness ==
    /\ Len(routes) = 2
    /\ Len(RenderedMarkers(routes)) = 2
    /\ RenderedMarkers(routes)[2].label = "B"


-----------------------------------------------------------------------------
(* Properties of the debounced planner *)

\* C23: at most one timer is pending, and it is the timer of the current
\* inputs; a change of an input leaves exactly the timer of the new inputs
\* pending; a /plan request is issued only by a timer that fires, for the
\* inputs as they are when it fires, and never with an empty origin or
\* destination.
C23_Debounced ==
    [][ /\ Cardinality(pTimer') <= 1
        /\ \A tm \in pTimer' : tm.inputs = pInputs'
        /\ pInputs' # pInputs => pTimer' = {Timer(pInputs')}
        /\ \A req \in pInflight' \ pInflight :
               /\ pTimer' = {}
               /\ req.inputs = pInputs
               /\ req.inputs.origin # "" /\ req.inputs.destination # "" ]_vars

\* C23 witness: after a burst of input changes the one request that has
\* been issued is the request for the final inputs.
C23_Witness ==
    /\ pLast.op = "timerFires"
    /\ pNextId = 1
    /\ pInputs.stops # InitialInputs.stops /\ pInputs.mode # InitialInputs.mode
    /\ \E req \in pInflight : req.id = 1 /\ req.inputs = pInputs

\* The events of the object that reference ref points to in heap h.
EventsAt(h, ref) ==
    IF h[ref].obj.events_nearby.t = "array"
    THEN h[ref].obj.events_nearby.v ELSE <<>>

\* C26: simulateEvent completes without error in every state; it leaves the
\* number of routes and every route but the first unchanged, and with a
\* route displayed it appends one event to the first route's events_nearby.
C26_SimulateEventCompletes ==
    [][ pLast'.op = "simulateEvent" =>
            /\ ~pLast'.threw
            /\ Len(pRoutes') = Len(pRoutes)
            /\ \A i \in 2..Len(pRoutes) :
                   heap'[pRoutes'[i]].obj = heap[pRoutes[i]].obj
            /\ pRoutes # <<>> =>
                   Len(EventsAt(heap', pRoutes'[1])) =
                       Len(EventsAt(heap, pRoutes[1])) + 1 ]_vars


-----------------------------------------------------------------------------
(* Properties of the event and alert cards *)

\* The value of a field that has two spellings.
Spelled(a, b) == IF a.t = "undefined" THEN b ELSE a

\* A card shows the event's title, timestamp and venue under either spelling.
ShowsEvent(card) ==
    /\ card.title = Spelled(card.base.name, card.base.title)
    /\ card.time =
           DateParse(Spelled(card.base.date_time, card.base.start_time))
    /\ card.venue = Spelled(card.base.venue_name, card.base.venue)

\* C21: every event card, today's and the other days', shows the title, the
\* timestamp and the venue of its event, whether the event is spelled with
\* title/start_time/venue or with name/date_time/venue_name.
C21_EventSynonyms ==
    output.t = "cards" =>
        /\ \A i \in 1..Len(output.today) : ShowsEvent(output.today[i])
        /\ \A g \in 1..Len(output.others) :
               \A i \in 1..Len(output.others[g].cards) :
                   ShowsEvent(output.others[g].cards[i])

Recognized(severity) ==
    severity.t = "string" /\ severity.v \in {"low", "medium", "high"}

\* C22: the card of an alert whose severity is not low, medium or high has
\* the neutral background of the theme, and the impact level is the one the
\* recognized alerts determine, one of low, medium, high.
C22_UnknownSeverityNeutral ==
    /\ (output.t = "alerts" /\ output.v.t = "alertCards") =>
           \A i \in 1..Len(output.v.v) :
               ~Recognized(output.v.v[i].severity) =>
                   output.v.v[i].background =
                       (IF output.dark THEN Str("#111827") ELSE Str("#f5f5f5"))
    /\ output.t = "impact" =>
           LET known == {x \in SeveritiesOf(input.route) : Recognized(x)}
           IN output.v = IF Str("high") \in known THEN "high"
                         ELSE IF Str("medium") \in known THEN "medium"
                         ELSE "low"

====
